---- MODULE Spec2Model ----
(***************************************************************************)
(* GWAS summary-statistics processing: the three scripts of the repository *)
(*   create_all_consolidated_data.py  (consolidation)                      *)
(*   create_tabix_files.py            (indexed subsetting)                 *)
(*   match_all_snps.py                (re-matching)                        *)
(* A line of a tab-delimited file is the sequence of its tab-separated     *)
(* fields; a file is the sequence of its lines. The file system is a       *)
(* function from paths to contents whose domain is the set of files that   *)
(* exist. Floating-point values are integers in units of 1e-5.             *)
(***************************************************************************)
EXTENDS Integers, Sequences, FiniteSets, TLC

VARIABLES
    \* ---- create_tabix_files.py ----
    input_file,     \* create_tabix_file: lines of the input file
    output_file,    \* create_tabix_file: the output path prefix
    pval_min,       \* None or <<bound>>
    pval_max,       \* None or <<bound>>
    t_pc,           \* position inside create_tabix_file
    disk,           \* the output folder: path -> content
    stdout,         \* the announcements printed by main and create_tabix_file
    returncode,     \* exit status of the last external tool invocation
    counters,       \* total_lines, filtered_lines, error_lines
    error,          \* None, or <<step>> for the exception that propagated
    encoded,        \* None, or <<encoded_gz, encoded_tbi>>
    \* ---- main of create_tabix_files.py ----
    args,           \* parsed command line: software, phenotype, cohort
    input_folder,   \* file name <<phenotype, cohort, software>> -> lines
    main_pc,        \* position inside main
    sw_i,           \* index into software_types
    sumstats_files, \* glob result for the current software type
    file_i,         \* index into sumstats_files
    range_i,        \* index into pval_ranges
    \* ---- create_all_consolidated_data.py ----
    cons_pc,           \* position inside process_software_type
    cons_software,     \* software_type
    cons_input_dir,    \* <<phenotype, cohort>> -> the .sumstats.txt.gz file
    cons_gz_files,     \* glob result
    cons_i,            \* index of the file the loop is at
    consolidated_data, \* the catalog being built
    cons_log,          \* what the run printed
    cons_output,       \* the catalog each run has written, oldest first
    \* ---- match_all_snps.py ----
    match_pc,             \* position inside process_software_type
    match_software,       \* software_type
    original_snp_data,    \* the loaded consolidated catalog
    match_input_dir,      \* <<phenotype, cohort, band>> -> the subset file
    match_gz_files,       \* glob result
    match_i,              \* index of the file the loop is at
    new_consolidated_data,\* the match result being built
    all_matched_snps,     \* the global matched-identifier set
    match_log,            \* what the run printed and logged
    match_output          \* the match result written, if any

tabix_vars == <<input_file, output_file, pval_min, pval_max, t_pc, disk, stdout,
                returncode, counters, error, encoded>>
main_vars  == <<args, input_folder, main_pc, sw_i, sumstats_files, file_i, range_i>>
cons_vars  == <<cons_pc, cons_software, cons_input_dir, cons_gz_files, cons_i,
                consolidated_data, cons_log, cons_output>>
match_vars == <<match_pc, match_software, original_snp_data, match_input_dir,
                match_gz_files, match_i, new_consolidated_data, all_matched_snps,
                match_log, match_output>>

\* ------------------------------------------------------------------------
\* Bounds of the model
\* ------------------------------------------------------------------------
MaxTabixRows == 2     \* data rows of an input file of create_tabix_file
MaxConsRows  == 2     \* data rows of an input file of consolidation
MaxMatchRows == 1     \* data rows of a subset file of re-matching
MaxRuns      == 2     \* runs of consolidation over the same input directory

\* ------------------------------------------------------------------------
\* Generic helpers
\* ------------------------------------------------------------------------
None == << >>

Put(d, k, v) == [x \in (DOMAIN d) \cup {k} |-> IF x = k THEN v ELSE d[x]]

Remove(d, k) == [x \in (DOMAIN d) \ {k} |-> d[x]]

SeqsUpTo(S, n) == UNION {[1..k -> S] : k \in 0..n}

Perms(n) == {p \in [1..n -> 1..n] : \A i, j \in 1..n : i # j => p[i] # p[j]}

\* str.strip() followed by split('\t'): leading and trailing whitespace of
\* the line goes, tabs included, so leading and trailing empty fields vanish
\* together with their separators; ''.split('\t') is [''].
RECURSIVE DropLeadingEmpty(_)
DropLeadingEmpty(s) ==
    IF s = << >> THEN << >>
    ELSE IF Head(s) = "" THEN DropLeadingEmpty(Tail(s)) ELSE s

RECURSIVE DropTrailingEmpty(_)
DropTrailingEmpty(s) ==
    IF s = << >> THEN << >>
    ELSE IF s[Len(s)] = "" THEN DropTrailingEmpty(SubSeq(s, 1, Len(s) - 1)) ELSE s

StripSplit(line) ==
    LET core == DropTrailingEmpty(DropLeadingEmpty(line))
    IN  IF core = << >> THEN <<"">> ELSE core

\* float(): the value in units of 1e-5 of the tokens that parse, in <<v>>;
\* None stands for ValueError.
FloatTable ==
    "1e-5" :> 1 @@ "1e-4" :> 10 @@ "0.01" :> 1000 @@ "0.1" :> 10000 @@
    "0.5" :> 50000 @@ "1" :> 100000 @@ "1.5" :> 150000 @@ "2" :> 200000 @@
    "100" :> 10000000 @@ "200" :> 20000000

ParseFloat(tok) == IF tok \in DOMAIN FloatTable THEN <<FloatTable[tok]>> ELSE None

\* ------------------------------------------------------------------------
\* create_tabix_files.py: create_tabix_file
\* ------------------------------------------------------------------------
MinFields == 8      \* len(fields) < 8
PvalField == 8      \* fields[7], 1-based here
UnitPval  == 100000 \* the float 1 of "0 <= pval <= 1", in units of 1e-5

SortedPath(out)   == <<out, ".sorted">>
FilteredPath(out) == <<out, ".filtered">>
GzPath(out)       == <<out, ".gz">>
TbiPath(out)      == <<out, ".gz.tbi">>

\* sort(1) without -t: fields are the runs of non-blank characters.
SortFields(line) == SelectSeq(line, LAMBDA f : f # "")

\* -k2,2V: version order of the chromosome key; a missing key sorts first,
\* digits sort before letters.
VersionRank(tok) ==
    IF tok = "" THEN 0
    ELSE IF tok = "1" THEN 1
    ELSE IF tok = "2" THEN 2
    ELSE IF tok = "100" THEN 100
    ELSE 1000

\* -k3,3n and -k8,8n: the leading decimal number of the key, no exponent
\* ("1e-5" reads as 1), 0 when there is none; in units of 1e-5.
SortNumericTable ==
    "1e-5" :> 100000 @@ "1e-4" :> 100000 @@ "0.01" :> 1000 @@ "0.1" :> 10000 @@
    "0.5" :> 50000 @@ "1" :> 100000 @@ "1.5" :> 150000 @@ "2" :> 200000 @@
    "100" :> 10000000 @@ "200" :> 20000000

SortNumeric(tok) == IF tok \in DOMAIN SortNumericTable THEN SortNumericTable[tok] ELSE 0

SortKeyField(line, k) ==
    LET f == SortFields(line) IN IF Len(f) >= k THEN f[k] ELSE ""

SortKey(line) ==
    <<VersionRank(SortKeyField(line, 2)),
      SortNumeric(SortKeyField(line, 3)),
      SortNumeric(SortKeyField(line, 8))>>

KeyLeq(a, b) ==
    \/ a[1] < b[1]
    \/ a[1] = b[1] /\ a[2] < b[2]
    \/ a[1] = b[1] /\ a[2] = b[2] /\ a[3] <= b[3]

\* The outputs of "sort -k2,2V -k3,3n -k8,8n" on the data rows: the rows in
\* non-decreasing key order; rows with equal keys fall back on the locale's
\* comparison of the whole line, left open here.
SortOutputs(rows) ==
    LET n == Len(rows)
    IN  {s \in {[i \in 1..n |-> rows[p[i]]] : p \in Perms(n)} :
            \A i \in 1..(n - 1) : KeyLeq(SortKey(s[i]), SortKey(s[i + 1]))}

\* Mutant: the whole file goes through sort, the header line included.
SortCmdOutputs_HeaderSorted(lines) == SortOutputs(lines)

\* (head -n 1 input && tail -n +2 input | sort ...) > sorted_file
SortCmdOutputs(lines) ==
    IF lines = << >> THEN {<< >>}
    ELSE {<<Head(lines)>> \o s : s \in SortOutputs(Tail(lines))}

\* What a failed sort command leaves in sorted_file: the redirection has
\* created the file; head may or may not have written the header.
SortCmdPartial(lines) ==
    IF lines = << >> THEN {<< >>} ELSE {<< >>, <<Head(lines)>>}

\* The decision of the filter loop for one line of the sorted file:
\* "write", "skip" (parsed, outside the band) or "error".
FilterLine(line, pmin, pmax) ==
    LET fields == StripSplit(line)
    IN  IF Len(fields) < MinFields THEN "error"
        ELSE LET pval == ParseFloat(fields[PvalField])
             IN  IF pval = None THEN "error"
                 ELSE IF ~(0 <= pval[1] /\ pval[1] <= UnitPval) THEN "error"
                 ELSE IF (pmin = None \/ pval[1] >= pmin[1])
                         /\ (pmax = None \/ pval[1] <= pmax[1])
                      THEN "write"
                      ELSE "skip"

\* Step 3 of create_tabix_file on the lines of sorted_file: the lines of
\* filtered_file and the three counters.
FilterFile(sorted_lines, pmin, pmax) ==
    LET header == IF sorted_lines = << >> THEN << >> ELSE <<Head(sorted_lines)>>
        data   == IF sorted_lines = << >> THEN << >> ELSE Tail(sorted_lines)
        kept   == SelectSeq(data, LAMBDA l : FilterLine(l, pmin, pmax) = "write")
        errs   == SelectSeq(data, LAMBDA l : FilterLine(l, pmin, pmax) = "error")
    IN  [lines          |-> header \o kept,
         total_lines    |-> Len(data),
         filtered_lines |-> 1 + Len(kept),
         error_lines    |-> Len(errs)]

Bgzip(lines) == <<"bgzf", lines>>

TabixIndex(gz) == <<"tbi", gz>>

B64Encode(content) == <<"base64", content>>

NoCounters == [total_lines |-> 0, filtered_lines |-> 0, error_lines |-> 0]

\* A non-zero exit under check=True (or check_output): CalledProcessError
\* leaves create_tabix_file.
Raise(step) ==
    /\ returncode' = 1
    /\ error' = <<step>>
    /\ t_pc' = "raised"

Succeed(next) ==
    /\ returncode' = 0
    /\ t_pc' = next
    /\ UNCHANGED error

\* Step 1: gunzip -c input | wc -l through check_output.
CountLines ==
    /\ t_pc = "count"
    /\ stdout' = Append(stdout, <<"Counting lines">>)
    /\ \/ Succeed("sort")
       \/ Raise("count")
    /\ UNCHANGED <<input_file, output_file, pval_min, pval_max, disk, counters, encoded>>
    /\ UNCHANGED <<main_vars, cons_vars, match_vars>>

\* Step 2: the sort command through subprocess.run(check=True).
SortStep ==
    /\ t_pc = "sort"
    /\ stdout' = Append(stdout, <<"Sorting data">>)
    /\ \/ /\ \E s \in SortCmdOutputs(input_file) :
                disk' = Put(disk, SortedPath(output_file), s)
          /\ Succeed("filter")
       \/ /\ \E s \in SortCmdPartial(input_file) :
                disk' = Put(disk, SortedPath(output_file), s)
          /\ Raise("sort")
    /\ UNCHANGED <<input_file, output_file, pval_min, pval_max, counters, encoded>>
    /\ UNCHANGED <<main_vars, cons_vars, match_vars>>

\* Step 3: the filter loop.
FilterStep ==
    /\ t_pc = "filter"
    /\ stdout' = Append(stdout, <<"Filtering data">>)
    /\ LET r == FilterFile(disk[SortedPath(output_file)], pval_min, pval_max)
       IN  /\ disk' = Put(disk, FilteredPath(output_file), r.lines)
           /\ counters' = [total_lines    |-> r.total_lines,
                           filtered_lines |-> r.filtered_lines,
                           error_lines    |-> r.error_lines]
    /\ t_pc' = "compress"
    /\ UNCHANGED <<input_file, output_file, pval_min, pval_max, returncode, error, encoded>>
    /\ UNCHANGED <<main_vars, cons_vars, match_vars>>

\* Mutant: the intermediates are removed as soon as the artifact is
\* compressed, before the index is built.
CompressStep_EarlyCleanup ==
    /\ t_pc = "compress"
    /\ stdout' = Append(stdout, <<"Compressing">>)
    /\ \/ /\ disk' = Remove(Remove(Put(disk, GzPath(output_file),
                                         Bgzip(disk[FilteredPath(output_file)])),
                                     SortedPath(output_file)),
                              FilteredPath(output_file))
          /\ Succeed("index")
       \/ /\ disk' = Put(disk, GzPath(output_file), << >>)
          /\ Raise("compress")
    /\ UNCHANGED <<input_file, output_file, pval_min, pval_max, counters, encoded>>
    /\ UNCHANGED <<main_vars, cons_vars, match_vars>>

\* Step 4: bgzip -c filtered_file with stdout=open(output_gz_file, 'wb'):
\* the open creates the file before bgzip runs.
CompressStep ==
    /\ t_pc = "compress"
    /\ stdout' = Append(stdout, <<"Compressing">>)
    /\ \/ /\ disk' = Put(disk, GzPath(output_file),
                         Bgzip(disk[FilteredPath(output_file)]))
          /\ Succeed("index")
       \/ /\ disk' = Put(disk, GzPath(output_file), << >>)
          /\ Raise("compress")
    /\ UNCHANGED <<input_file, output_file, pval_min, pval_max, counters, encoded>>
    /\ UNCHANGED <<main_vars, cons_vars, match_vars>>

\* Mutant: the exit status of tabix is not checked (check=False).
IndexStep_Unchecked ==
    /\ t_pc = "index"
    /\ stdout' = Append(stdout, <<"Creating Tabix index">>)
    /\ \/ /\ disk' = Put(disk, TbiPath(output_file),
                         TabixIndex(disk[GzPath(output_file)]))
          /\ Succeed("encode")
       \/ /\ disk' = Put(disk, TbiPath(output_file), << >>)
          /\ returncode' = 1
          /\ t_pc' = "encode"
          /\ UNCHANGED error
    /\ UNCHANGED <<input_file, output_file, pval_min, pval_max, counters, encoded>>
    /\ UNCHANGED <<main_vars, cons_vars, match_vars>>

\* tabix -s 2 -b 3 -e 3 -S 1 output_gz_file
IndexStep ==
    /\ t_pc = "index"
    /\ stdout' = Append(stdout, <<"Creating Tabix index">>)
    /\ \/ /\ disk' = Put(disk, TbiPath(output_file),
                         TabixIndex(disk[GzPath(output_file)]))
          /\ Succeed("encode")
       \/ /\ Raise("index")
          /\ UNCHANGED disk
    /\ UNCHANGED <<input_file, output_file, pval_min, pval_max, counters, encoded>>
    /\ UNCHANGED <<main_vars, cons_vars, match_vars>>

\* Base64 encoding of the artifact and of its index.
EncodeStep ==
    /\ t_pc = "encode"
    /\ stdout' = Append(stdout, <<"Encoding files to base64">>)
    /\ encoded' = <<B64Encode(disk[GzPath(output_file)]),
                    B64Encode(disk[TbiPath(output_file)])>>
    /\ t_pc' = "cleanup"
    /\ UNCHANGED <<input_file, output_file, pval_min, pval_max, disk, returncode,
                   counters, error>>
    /\ UNCHANGED <<main_vars, cons_vars, match_vars>>

\* os.remove of both intermediates, then return encoded_gz, encoded_tbi.
CleanupStep ==
    /\ t_pc = "cleanup"
    /\ disk' = Remove(Remove(disk, SortedPath(output_file)), FilteredPath(output_file))
    /\ t_pc' = "returned"
    /\ UNCHANGED <<input_file, output_file, pval_min, pval_max, stdout, returncode,
                   counters, error, encoded>>
    /\ UNCHANGED <<main_vars, cons_vars, match_vars>>

create_tabix_file ==
    \/ CountLines
    \/ SortStep
    \/ FilterStep
    \/ CompressStep
    \/ IndexStep
    \/ EncodeStep
    \/ CleanupStep

\* ------------------------------------------------------------------------
\* create_tabix_files.py: main
\* ------------------------------------------------------------------------
\* pval_ranges: (None, 1e-4) and (None, 1e-1)
pval_ranges == << <<None, <<10>> >>, <<None, <<10000>> >> >>

software_types(a) ==
    IF a.software = "both" THEN <<"mrmega", "gwama">> ELSE <<a.software>>

\* The names of the input folder that the glob pattern of one software type
\* matches: <phenotype>.<cohort>.<software>.sumstats.txt.gz, with "*" for
\* an argument that was not given.
GlobMatches(folder, a, software) ==
    {n \in DOMAIN folder :
        /\ n[3] = software
        /\ (a.phenotype = None \/ n[1] = a.phenotype[1])
        /\ (a.cohort = None \/ n[2] = a.cohort[1])}

\* glob.glob returns the matches in arbitrary order.
GlobOrders(S) ==
    {s \in [1..Cardinality(S) -> S] : \A i, j \in DOMAIN s : i # j => s[i] # s[j]}

pval_range_str(pmin, pmax) ==
    IF pmax = None THEN <<pmin, "_and_above">>
    ELSE IF pmin = None THEN <<"up_to_", pmax>>
    ELSE <<pmin, "_to_", pmax>>

OutputFile(name, pmin, pmax) == <<name[1], name[2], name[3], pval_range_str(pmin, pmax)>>

\* for software in software_types: build the pattern, glob, "continue" on
\* no match.
MainSoftware ==
    /\ main_pc = "software"
    /\ IF sw_i > Len(software_types(args))
       THEN /\ main_pc' = "exit"
            /\ UNCHANGED <<sw_i, sumstats_files, file_i, range_i>>
       ELSE LET m == GlobMatches(input_folder, args, software_types(args)[sw_i])
            IN  IF m = {}
                THEN /\ sw_i' = sw_i + 1
                     /\ UNCHANGED <<main_pc, sumstats_files, file_i, range_i>>
                ELSE /\ \E order \in GlobOrders(m) : sumstats_files' = order
                     /\ file_i' = 1
                     /\ range_i' = 1
                     /\ main_pc' = "call"
                     /\ UNCHANGED sw_i
    /\ UNCHANGED <<args, input_folder>>
    /\ UNCHANGED <<tabix_vars, cons_vars, match_vars>>

\* The call create_tabix_file(input_file, output_file, pval_min, pval_max).
MainCall ==
    /\ main_pc = "call"
    /\ LET name == sumstats_files[file_i]
           rng  == pval_ranges[range_i]
       IN  /\ input_file' = input_folder[name]
           /\ output_file' = OutputFile(name, rng[1], rng[2])
           /\ pval_min' = rng[1]
           /\ pval_max' = rng[2]
    /\ t_pc' = "count"
    /\ counters' = NoCounters
    /\ error' = None
    /\ encoded' = None
    /\ main_pc' = "in_call"
    /\ stdout' = Append(stdout, <<"Processing", OutputFile(sumstats_files[file_i],
                                    pval_ranges[range_i][1], pval_ranges[range_i][2])>>)
    /\ UNCHANGED <<disk, returncode>>
    /\ UNCHANGED <<args, input_folder, sw_i, sumstats_files, file_i, range_i>>
    /\ UNCHANGED <<cons_vars, match_vars>>

\* The call returned: next range, next file, next software type.
MainReturn ==
    /\ main_pc = "in_call"
    /\ t_pc = "returned"
    /\ IF range_i < Len(pval_ranges)
       THEN /\ range_i' = range_i + 1
            /\ main_pc' = "call"
            /\ UNCHANGED <<file_i, sw_i>>
       ELSE IF file_i < Len(sumstats_files)
       THEN /\ file_i' = file_i + 1
            /\ range_i' = 1
            /\ main_pc' = "call"
            /\ UNCHANGED sw_i
       ELSE /\ sw_i' = sw_i + 1
            /\ main_pc' = "software"
            /\ UNCHANGED <<file_i, range_i>>
    /\ UNCHANGED <<args, input_folder, sumstats_files>>
    /\ UNCHANGED <<tabix_vars, cons_vars, match_vars>>

\* Mutant: main catches the exception of the call and goes on with the
\* next range, file or software type.
MainRaise_Caught ==
    /\ main_pc = "in_call"
    /\ t_pc = "raised"
    /\ IF range_i < Len(pval_ranges)
       THEN /\ range_i' = range_i + 1
            /\ main_pc' = "call"
            /\ UNCHANGED <<file_i, sw_i>>
       ELSE IF file_i < Len(sumstats_files)
       THEN /\ file_i' = file_i + 1
            /\ range_i' = 1
            /\ main_pc' = "call"
            /\ UNCHANGED sw_i
       ELSE /\ sw_i' = sw_i + 1
            /\ main_pc' = "software"
            /\ UNCHANGED <<file_i, range_i>>
    /\ UNCHANGED <<args, input_folder, sumstats_files>>
    /\ UNCHANGED <<tabix_vars, cons_vars, match_vars>>

\* The call raised: main has no try around it, the exception leaves main.
MainRaise ==
    /\ main_pc = "in_call"
    /\ t_pc = "raised"
    /\ main_pc' = "crashed"
    /\ UNCHANGED <<args, input_folder, sw_i, sumstats_files, file_i, range_i>>
    /\ UNCHANGED <<tabix_vars, cons_vars, match_vars>>

main ==
    \/ MainSoftware
    \/ MainCall
    \/ MainReturn
    \/ MainRaise

\* ------------------------------------------------------------------------
\* Inputs of the subsetting stage
\* ------------------------------------------------------------------------
Header9 == <<"ID", "CHR", "POS", "REF", "ALT", "BETA", "SE", "P", "AAF">>

TabixRow(id, chr, p) == <<id, chr, "100", "A", "G", "0.1", "0.01", p, "1e-5">>

ShortRow == <<"rs1", "1", "100", "A", "G", "0.1", "0.01">>

PvalTokens == {"1e-5", "1e-4", "0.5", "1.5", "NA"}

TabixRows ==
    {TabixRow(id, "1", p) : id \in {"rs1", ""}, p \in PvalTokens}
        \cup {TabixRow("rs1", "2", "1e-5"), ShortRow}

\* An input file: empty, or a header and up to MaxTabixRows data rows.
TabixInputs == {<< >>} \cup {<<Header9>> \o rows : rows \in SeqsUpTo(TabixRows, MaxTabixRows)}

Bounds == {None, <<10>>, <<10000>>}

ConsIdle ==
    /\ cons_pc = "idle"
    /\ cons_software = ""
    /\ cons_input_dir = << >>
    /\ cons_gz_files = << >>
    /\ cons_i = 0
    /\ consolidated_data = << >>
    /\ cons_log = << >>
    /\ cons_output = << >>

MatchIdle ==
    /\ match_pc = "idle"
    /\ match_software = ""
    /\ original_snp_data = << >>
    /\ match_input_dir = << >>
    /\ match_gz_files = << >>
    /\ match_i = 0
    /\ new_consolidated_data = << >>
    /\ all_matched_snps = {}
    /\ match_log = << >>
    /\ match_output = << >>

TabixIdle ==
    /\ input_file = << >>
    /\ output_file = None
    /\ pval_min = None
    /\ pval_max = None
    /\ t_pc = "idle"
    /\ disk = << >>
    /\ stdout = << >>
    /\ returncode = 0
    /\ counters = NoCounters
    /\ error = None
    /\ encoded = None

MainIdle ==
    /\ args = None
    /\ input_folder = << >>
    /\ main_pc = "direct"
    /\ sw_i = 0
    /\ sumstats_files = << >>
    /\ file_i = 0
    /\ range_i = 0

\* A direct call of create_tabix_file on any input and any band.
TabixInit ==
    /\ input_file \in TabixInputs
    /\ output_file = <<"height", "UKBB", "mrmega", "band">>
    /\ pval_min \in Bounds
    /\ pval_max \in Bounds
    /\ t_pc = "count"
    /\ disk = << >>
    /\ stdout = << >>
    /\ returncode = 0
    /\ counters = NoCounters
    /\ error = None
    /\ encoded = None
    /\ MainIdle
    /\ ConsIdle
    /\ MatchIdle

MainFileNames ==
    {<<"height", "UKBB", "mrmega">>, <<"bmi", "FinnGen", "mrmega">>,
     <<"height", "UKBB", "gwama">>}

MainContents ==
    {<<Header9, TabixRow("rs1", "1", "1e-5")>>, <<Header9, TabixRow("rs1", "1", "NA")>>}

MainFolders == UNION {[S -> MainContents] : S \in SUBSET MainFileNames}

MainArgs ==
    [software : {"mrmega", "gwama", "both"},
     phenotype : {None, <<"height">>},
     cohort : {None, <<"UKBB">>}]

\* A run of the script on any folder and any command line.
MainInit ==
    /\ args \in MainArgs
    /\ input_folder \in MainFolders
    /\ main_pc = "software"
    /\ sw_i = 1
    /\ sumstats_files = << >>
    /\ file_i = 0
    /\ range_i = 0
    /\ TabixIdle
    /\ ConsIdle
    /\ MatchIdle

vars == <<tabix_vars, main_vars, cons_vars, match_vars>>

\* ------------------------------------------------------------------------
\* create_all_consolidated_data.py and match_all_snps.py: shared shapes
\* ------------------------------------------------------------------------
\* COLUMN_MAPPINGS, zero-based as in the source; both scripts hold the same
\* table.
COLUMN_MAPPINGS ==
    [s \in {"mrmega", "gwama"} |->
        [id |-> 0, chr |-> 1, pos |-> 2, ref |-> 3, alt |-> 4, beta |-> 5,
         se |-> 6, pval |-> 7, aaf |-> 12, n |-> 16, n_study |-> 18]]

MaxColumn(mapping) ==
    CHOOSE m \in {mapping[k] : k \in DOMAIN mapping} :
        \A k \in DOMAIN mapping : mapping[k] <= m

\* fields[mapping[key]], the sequence being 1-based here
Field(fields, mapping, key) == fields[mapping[key] + 1]

SnpInfo(fields, mapping) ==
    [chromosome |-> Field(fields, mapping, "chr"),
     position   |-> Field(fields, mapping, "pos"),
     ref_allele |-> Field(fields, mapping, "ref"),
     alt_allele |-> Field(fields, mapping, "alt"),
     beta       |-> Field(fields, mapping, "beta"),
     se         |-> Field(fields, mapping, "se"),
     p_value    |-> Field(fields, mapping, "pval"),
     aaf        |-> Field(fields, mapping, "aaf"),
     n          |-> Field(fields, mapping, "n"),
     n_study    |-> Field(fields, mapping, "n_study")]

EmptyDict == << >>

\* dict.update: the keys of b replace those of a, whole values at a time.
Update(a, b) ==
    [k \in (DOMAIN a) \cup (DOMAIN b) |-> IF k \in DOMAIN b THEN b[k] ELSE a[k]]

\* snp_data[snp_id][phenotype][cohort] = snp_info, creating the two outer
\* levels when they are missing.
SetRecord(snp_data, snp_id, phenotype, cohort, snp_info) ==
    LET by_pheno  == IF snp_id \in DOMAIN snp_data THEN snp_data[snp_id] ELSE EmptyDict
        by_cohort == IF phenotype \in DOMAIN by_pheno THEN by_pheno[phenotype]
                     ELSE EmptyDict
    IN  Put(snp_data, snp_id, Put(by_pheno, phenotype, Put(by_cohort, cohort, snp_info)))

\* gzip.open fails on a corrupt file and next(f) raises StopIteration on a
\* file without a header line: either way the exception leaves
\* process_gz_file.
FileRaises(file) == ~file.gzip_ok \/ file.lines = << >>

\* ------------------------------------------------------------------------
\* create_all_consolidated_data.py
\* ------------------------------------------------------------------------
\* The loop over the data lines of one file.
RECURSIVE ConsLines(_, _, _, _, _)
ConsLines(lines, phenotype, cohort, mapping, snp_data) ==
    IF lines = << >> THEN snp_data
    ELSE LET fields == StripSplit(Head(lines))
         IN  IF Len(fields) < MaxColumn(mapping) + 1
             THEN ConsLines(Tail(lines), phenotype, cohort, mapping, snp_data)
             ELSE ConsLines(Tail(lines), phenotype, cohort, mapping,
                            SetRecord(snp_data, Field(fields, mapping, "id"),
                                      phenotype, cohort, SnpInfo(fields, mapping)))

\* process_gz_file of a file that opens and has a header: its snp_data.
cons_process_gz_file(name, file, software) ==
    ConsLines(Tail(file.lines), name[1], name[2], COLUMN_MAPPINGS[software], EmptyDict)

\* consolidated_data.update(file_data)
ConsMerge(data, file_data) == Update(data, file_data)

\* glob of *.<software>.sumstats.txt.gz; "No files found" returns at once.
ConsGlob ==
    /\ cons_pc = "glob"
    /\ consolidated_data' = EmptyDict
    /\ \E order \in GlobOrders(DOMAIN cons_input_dir) : cons_gz_files' = order
    /\ IF DOMAIN cons_input_dir = {}
       THEN /\ cons_pc' = "nofiles"
            /\ cons_log' = << <<"No files found">> >>
            /\ UNCHANGED cons_i
       ELSE /\ cons_pc' = "loop"
            /\ cons_log' = << >>
            /\ cons_i' = 1
    /\ UNCHANGED <<cons_software, cons_input_dir, cons_output>>
    /\ UNCHANGED <<tabix_vars, main_vars, match_vars>>

\* Mutant: the handler of a file's exception leaves the loop instead of
\* going on with the next file.
ConsFile_Break ==
    /\ cons_pc = "loop"
    /\ cons_i <= Len(cons_gz_files)
    /\ LET name == cons_gz_files[cons_i]
           file == cons_input_dir[name]
       IN  IF FileRaises(file)
           THEN /\ cons_log' = cons_log \o << <<"Processing", name>>, <<"Error", name>> >>
                /\ cons_i' = Len(cons_gz_files) + 1
                /\ UNCHANGED consolidated_data
           ELSE /\ cons_log' = Append(cons_log, <<"Processing", name>>)
                /\ consolidated_data' =
                      ConsMerge(consolidated_data,
                                cons_process_gz_file(name, file, cons_software))
                /\ cons_i' = cons_i + 1
    /\ UNCHANGED <<cons_pc, cons_software, cons_input_dir, cons_gz_files, cons_output>>
    /\ UNCHANGED <<tabix_vars, main_vars, match_vars>>

\* One iteration of "for file_path in gz_files": try process_gz_file and
\* update, except Exception print.
ConsFile ==
    /\ cons_pc = "loop"
    /\ cons_i <= Len(cons_gz_files)
    /\ LET name == cons_gz_files[cons_i]
           file == cons_input_dir[name]
       IN  IF FileRaises(file)
           THEN /\ cons_log' = cons_log \o << <<"Processing", name>>, <<"Error", name>> >>
                /\ UNCHANGED consolidated_data
           ELSE /\ cons_log' = Append(cons_log, <<"Processing", name>>)
                /\ consolidated_data' =
                      ConsMerge(consolidated_data,
                                cons_process_gz_file(name, file, cons_software))
    /\ cons_i' = cons_i + 1
    /\ UNCHANGED <<cons_pc, cons_software, cons_input_dir, cons_gz_files, cons_output>>
    /\ UNCHANGED <<tabix_vars, main_vars, match_vars>>

\* json.dump of the catalog into consolidated_snp_data_<software>.json.gz
ConsSave ==
    /\ cons_pc = "loop"
    /\ cons_i > Len(cons_gz_files)
    /\ cons_output' = Append(cons_output, consolidated_data)
    /\ cons_log' = Append(cons_log, <<"saved", Cardinality(DOMAIN consolidated_data)>>)
    /\ cons_pc' = "done"
    /\ UNCHANGED <<cons_software, cons_input_dir, cons_gz_files, cons_i, consolidated_data>>
    /\ UNCHANGED <<tabix_vars, main_vars, match_vars>>

\* The script is run again on the same input directory.
ConsRerun ==
    /\ cons_pc = "done"
    /\ Len(cons_output) < MaxRuns
    /\ cons_pc' = "glob"
    /\ cons_gz_files' = << >>
    /\ cons_i' = 0
    /\ cons_log' = << >>
    /\ UNCHANGED <<cons_software, cons_input_dir, consolidated_data, cons_output>>
    /\ UNCHANGED <<tabix_vars, main_vars, match_vars>>

cons_process_software_type ==
    \/ ConsGlob
    \/ ConsFile
    \/ ConsSave

\* ------------------------------------------------------------------------
\* Inputs of consolidation and re-matching
\* ------------------------------------------------------------------------
Header19 ==
    <<"ID", "CHR", "POS", "REF", "ALT", "BETA", "SE", "P", "c9", "c10", "c11", "c12",
      "AAF", "c14", "c15", "c16", "N", "c18", "NSTUDY">>

Row19(id, beta) ==
    <<id, "1", "100", "A", "G", beta, "0.01", "1e-5", "c9", "c10", "c11", "c12",
      "0.3", "c14", "c15", "c16", "5000", "c18", "3">>

\* 18 fields: one short of the highest configured column.
Row18(id) == SubSeq(Row19(id, "0.1"), 1, 18)

ConsRows == {Row19("rs1", "0.1"), Row19("rs1", "0.2"), Row19("rs2", "0.1"), Row18("rs2")}

GzFile(lines) == [gzip_ok |-> TRUE, lines |-> lines]

CorruptFile == [gzip_ok |-> FALSE, lines |-> << >>]

ConsFiles ==
    {CorruptFile, GzFile(<< >>)}
        \cup {GzFile(<<Header19>> \o rows) : rows \in SeqsUpTo(ConsRows, MaxConsRows)}

ConsNames == {<<"height", "UKBB">>, <<"height", "FinnGen">>}

ConsInputDirs == UNION {[S -> ConsFiles] : S \in SUBSET ConsNames}

ConsInit ==
    /\ cons_pc = "glob"
    /\ cons_software \in {"mrmega", "gwama"}
    /\ cons_input_dir \in ConsInputDirs
    /\ cons_gz_files = << >>
    /\ cons_i = 0
    /\ consolidated_data = EmptyDict
    /\ cons_log = << >>
    /\ cons_output = << >>
    /\ TabixIdle
    /\ MainIdle
    /\ MatchIdle

ConsNext == cons_process_software_type \/ ConsRerun

\* Consolidation of one software type, run up to MaxRuns times.
SpecCons == ConsInit /\ [][ConsNext]_vars


SpecTabix == TabixInit /\ [][create_tabix_file]_vars

MainNext == main \/ create_tabix_file

SpecMain == MainInit /\ [][MainNext]_vars

\* ------------------------------------------------------------------------
\* match_all_snps.py
\* ------------------------------------------------------------------------
\* Mutant: the row is recorded without looking the identifier up in the
\* loaded catalog.
RECURSIVE MatchLines_NoLookup(_, _, _, _, _, _)
MatchLines_NoLookup(lines, phenotype, cohort, mapping, original, acc) ==
    IF lines = << >> THEN acc
    ELSE LET fields == StripSplit(Head(lines))
         IN  IF Len(fields) < MaxColumn(mapping) + 1
             THEN MatchLines_NoLookup(Tail(lines), phenotype, cohort, mapping, original, acc)
             ELSE MatchLines_NoLookup(Tail(lines), phenotype, cohort, mapping, original,
                     [snp_data |-> SetRecord(acc.snp_data, Field(fields, mapping, "id"),
                                             phenotype, cohort, SnpInfo(fields, mapping)),
                      matched_snps |-> acc.matched_snps \cup {Field(fields, mapping, "id")}])

\* The loop over the data lines of one subset file: snp_data and
\* matched_snps.
RECURSIVE MatchLines(_, _, _, _, _, _)
MatchLines(lines, phenotype, cohort, mapping, original, acc) ==
    IF lines = << >> THEN acc
    ELSE LET fields == StripSplit(Head(lines))
         IN  IF Len(fields) < MaxColumn(mapping) + 1
             THEN MatchLines(Tail(lines), phenotype, cohort, mapping, original, acc)
             ELSE IF Field(fields, mapping, "id") \notin DOMAIN original
             THEN MatchLines(Tail(lines), phenotype, cohort, mapping, original, acc)
             ELSE MatchLines(Tail(lines), phenotype, cohort, mapping, original,
                     [snp_data |-> SetRecord(acc.snp_data, Field(fields, mapping, "id"),
                                             phenotype, cohort, SnpInfo(fields, mapping)),
                      matched_snps |-> acc.matched_snps \cup {Field(fields, mapping, "id")}])

\* process_gz_file of a subset file that opens and has a header.
match_process_gz_file(name, file, original, software) ==
    MatchLines(Tail(file.lines), name[1], name[2], COLUMN_MAPPINGS[software], original,
               [snp_data |-> EmptyDict, matched_snps |-> {}])

\* Mutant: the cohorts of the file are merged into the phenotype mapping
\* the variant already has.
MatchMerge_Deep(data, file_data) ==
    [snp \in (DOMAIN data) \cup (DOMAIN file_data) |->
        IF snp \notin DOMAIN file_data THEN data[snp]
        ELSE IF snp \notin DOMAIN data THEN file_data[snp]
        ELSE [ph \in (DOMAIN data[snp]) \cup (DOMAIN file_data[snp]) |->
                 IF ph \notin DOMAIN file_data[snp] THEN data[snp][ph]
                 ELSE IF ph \notin DOMAIN data[snp] THEN file_data[snp][ph]
                 ELSE Update(data[snp][ph], file_data[snp][ph])]]

\* for snp_id, snp_info in file_data.items():
\*     new_consolidated_data.setdefault-like creation, then .update(snp_info)
MatchMerge(data, file_data) ==
    [snp \in (DOMAIN data) \cup (DOMAIN file_data) |->
        IF snp \notin DOMAIN file_data THEN data[snp]
        ELSE Update(IF snp \in DOMAIN data THEN data[snp] ELSE EmptyDict, file_data[snp])]

\* glob of *.<software>_pval_*.gz; "No tabix files found" returns at once.
MatchGlob ==
    /\ match_pc = "glob"
    /\ \E order \in GlobOrders(DOMAIN match_input_dir) : match_gz_files' = order
    /\ IF DOMAIN match_input_dir = {}
       THEN /\ match_pc' = "nofiles"
            /\ match_log' = << <<"No tabix files found">> >>
            /\ UNCHANGED match_i
       ELSE /\ match_pc' = "loop"
            /\ match_i' = 1
            /\ UNCHANGED match_log
    /\ UNCHANGED <<match_software, original_snp_data, match_input_dir,
                   new_consolidated_data, all_matched_snps, match_output>>
    /\ UNCHANGED <<tabix_vars, main_vars, cons_vars>>

\* One iteration of the loop over gz_files: try process_gz_file, update the
\* global set, merge, log; except Exception print and log.
MatchFile ==
    /\ match_pc = "loop"
    /\ match_i <= Len(match_gz_files)
    /\ LET name == match_gz_files[match_i]
           file == match_input_dir[name]
       IN  IF FileRaises(file)
           THEN /\ match_log' = match_log \o << <<"Processing file", name>>, <<"Error", name>> >>
                /\ UNCHANGED <<new_consolidated_data, all_matched_snps>>
           ELSE LET r == match_process_gz_file(name, file, original_snp_data, match_software)
                IN  /\ all_matched_snps' = all_matched_snps \cup r.matched_snps
                    /\ new_consolidated_data' = MatchMerge(new_consolidated_data, r.snp_data)
                    /\ match_log' = match_log \o
                          << <<"Processing file", name>>,
                             <<"Matched SNPs in this file", Cardinality(r.matched_snps)>> >>
    /\ match_i' = match_i + 1
    /\ UNCHANGED <<match_pc, match_software, original_snp_data, match_input_dir,
                   match_gz_files, match_output>>
    /\ UNCHANGED <<tabix_vars, main_vars, cons_vars>>

\* json.dump of the match result into matched_snp_data_<software>.json.gz
MatchSave ==
    /\ match_pc = "loop"
    /\ match_i > Len(match_gz_files)
    /\ match_output' = <<new_consolidated_data>>
    /\ match_log' = Append(match_log, <<"Total matched SNPs", Cardinality(all_matched_snps)>>)
    /\ match_pc' = "done"
    /\ UNCHANGED <<match_software, original_snp_data, match_input_dir, match_gz_files,
                   match_i, new_consolidated_data, all_matched_snps>>
    /\ UNCHANGED <<tabix_vars, main_vars, cons_vars>>

match_process_software_type ==
    \/ MatchGlob
    \/ MatchFile
    \/ MatchSave

MatchRows == {Row19("rs1", "0.1"), Row19("rs2", "0.1"), Row18("rs1")}

MatchFiles ==
    {CorruptFile, GzFile(<< >>)}
        \cup {GzFile(<<Header19>> \o rows) : rows \in SeqsUpTo(MatchRows, MaxMatchRows)}

\* <phenotype>.<cohort>.<software>_pval_<band>.gz
MatchNames ==
    {<<"height", "UKBB", "up_to_0.0001">>, <<"height", "FinnGen", "up_to_0.0001">>,
     <<"bmi", "UKBB", "up_to_0.0001">>}

MatchInputDirs == UNION {[S -> MatchFiles] : S \in SUBSET MatchNames}

\* The catalogs consolidation writes for one input file with rs1, with or
\* without rs2.
OriginalCatalogs ==
    {cons_process_gz_file(<<"height", "UKBB">>, GzFile(<<Header19>> \o rows), "mrmega") :
        rows \in {<<Row19("rs1", "0.1")>>, <<Row19("rs1", "0.1"), Row19("rs2", "0.1")>>}}

MatchInit ==
    /\ match_pc = "glob"
    /\ match_software \in {"mrmega", "gwama"}
    /\ original_snp_data \in OriginalCatalogs
    /\ match_input_dir \in MatchInputDirs
    /\ match_gz_files = << >>
    /\ match_i = 0
    /\ new_consolidated_data = EmptyDict
    /\ all_matched_snps = {}
    /\ match_log = << >>
    /\ match_output = << >>
    /\ TabixIdle
    /\ MainIdle
    /\ ConsIdle

\* Re-matching of one software type.
SpecMatch == MatchInit /\ [][match_process_software_type]_vars

FilesNext == cons_process_software_type \/ match_process_software_type

\* One run of consolidation or one run of re-matching.
FilesInit == ConsInit \/ MatchInit

SpecFiles == FilesInit /\ [][FilesNext]_vars

\* ------------------------------------------------------------------------
\* Properties of the subsetting stage
\* ------------------------------------------------------------------------
Sorted   == SortedPath(output_file)
Filtered == FilteredPath(output_file)
Gz       == GzPath(output_file)
Tbi      == TbiPath(output_file)

StepAnnouncements ==
    << <<"Counting lines">>, <<"Sorting data">>, <<"Filtering data">>,
       <<"Compressing">>, <<"Creating Tabix index">>, <<"Encoding files to base64">> >>

\* The p-value column of a line as written, read off its own tab-separated
\* fields, lies in the band.
RowInBand(line, pmin, pmax) ==
    /\ Len(line) >= MinFields
    /\ ParseFloat(line[PvalField]) # None
    /\ pmin # None => ParseFloat(line[PvalField])[1] >= pmin[1]
    /\ pmax # None => ParseFloat(line[PvalField])[1] <= pmax[1]

\* C3: every data row of the filtered file has at least 8 fields and a
\* p-value column that parses as a number inside the band (an absent bound
\* is unbounded); a short row or an unparsable p-value is never written.
C3_FilteredRowsInBand ==
    Filtered \in DOMAIN disk =>
        \A i \in 2..Len(disk[Filtered]) : RowInBand(disk[Filtered][i], pval_min, pval_max)

\* C5: the header line of the input is the first line of the sorted file
\* (whenever the sort command succeeded) and of the filtered file,
\* unmodified, for every input and band, also when no data row is kept.
C5_HeaderPreserved ==
    input_file # << >> =>
        /\ (Sorted \in DOMAIN disk /\ error # <<"sort">>) =>
              /\ Len(disk[Sorted]) = Len(input_file)
              /\ disk[Sorted][1] = input_file[1]
        /\ Filtered \in DOMAIN disk =>
              /\ Len(disk[Filtered]) >= 1
              /\ disk[Filtered][1] = input_file[1]

\* C5 witness: the filter kept no data row of a file that had some, and the
\* filtered file is the header alone.
C5_Witness ==
    /\ Len(input_file) > 1
    /\ Filtered \in DOMAIN disk
    /\ disk[Filtered] = <<input_file[1]>>

\* C7: the steps are announced in the order count, sort, filter, compress,
\* index, encode; an intermediate file is gone only once the compressed
\* artifact and its index exist and the encoding is done; after a normal
\* return both intermediates are gone and the artifact and its index exist.
C7_StepOrderAndCleanup ==
    /\ Len(stdout) <= Len(StepAnnouncements)
    /\ stdout = SubSeq(StepAnnouncements, 1, Len(stdout))
    /\ (Len(stdout) >= 2 /\ Sorted \notin DOMAIN disk) =>
          /\ {Gz, Tbi} \subseteq DOMAIN disk
          /\ disk[Gz] # << >>
          /\ encoded # None
    /\ (Len(stdout) >= 3 /\ Filtered \notin DOMAIN disk) =>
          /\ {Gz, Tbi} \subseteq DOMAIN disk
          /\ disk[Gz] # << >>
          /\ encoded # None
    /\ t_pc = "returned" =>
          /\ Len(stdout) = Len(StepAnnouncements)
          /\ DOMAIN disk = {Gz, Tbi}
          /\ encoded = <<B64Encode(disk[Gz]), B64Encode(disk[Tbi])>>

\* C7 witness: the function has returned normally.
C7_Witness == t_pc = "returned" /\ Len(input_file) > 1

StepOf(step) ==
    IF step = "count" THEN 1
    ELSE IF step = "sort" THEN 2
    ELSE IF step = "compress" THEN 4
    ELSE 5

\* C8: when an external tool (line count, sort, compress, index) exits
\* non-zero, the error leaves create_tabix_file, the failed step is the last
\* one announced, nothing is encoded, and the files created so far stay on
\* disk: no filtered file after a failed sort, no index after a failed
\* compress, no cleanup after a failed index.
C8_ToolFailureAborts ==
    returncode # 0 =>
        /\ t_pc = "raised"
        /\ error # None
        /\ encoded = None
        /\ stdout = SubSeq(StepAnnouncements, 1, StepOf(error[1]))
        /\ error = <<"count">> => DOMAIN disk = {}
        /\ error = <<"sort">> => DOMAIN disk = {Sorted}
        /\ error = <<"compress">> => DOMAIN disk = {Sorted, Filtered, Gz}
        /\ error = <<"index">> => DOMAIN disk = {Sorted, Filtered, Gz}

\* C8 witness: tabix failed after sort, filter and compress had succeeded.
C8_Witness == t_pc = "raised" /\ error = <<"index">> /\ returncode # 0

Attempted(out) == \E i \in DOMAIN stdout : stdout[i] = <<"Processing", out>>

CallsOf(names) == {OutputFile(n, pval_ranges[r][1], pval_ranges[r][2]) :
                      n \in names, r \in DOMAIN pval_ranges}

\* Every call the run has to make: each matching file of each requested
\* software type, under each p-value range.
AllCalls ==
    CallsOf(UNION {GlobMatches(input_folder, args, software_types(args)[k]) :
                      k \in DOMAIN software_types(args)})

\* The calls still ahead of the current one.
RemainingCalls ==
    LET name == sumstats_files[file_i]
    IN  {OutputFile(name, pval_ranges[r][1], pval_ranges[r][2]) :
             r \in (range_i + 1)..Len(pval_ranges)}
        \cup CallsOf({sumstats_files[f] : f \in (file_i + 1)..Len(sumstats_files)})
        \cup CallsOf(UNION {GlobMatches(input_folder, args, software_types(args)[k]) :
                               k \in (sw_i + 1)..Len(software_types(args))})

\* C9 as stated: a tool failure for one file and band does not end the run;
\* when main is over, every band of every matching file of every requested
\* software type has been processed.
C9_RunSurvivesToolFailure ==
    main_pc \in {"exit", "crashed"} => \A out \in AllCalls : Attempted(out)

\* C9 amended: a tool failure leaves create_tabix_file and then main; main
\* starts no further call, and the bands, files and software types still
\* ahead are never processed.
C9_ToolFailureEndsRun ==
    returncode # 0 =>
        /\ t_pc = "raised"
        /\ main_pc \in {"in_call", "crashed"}
        /\ stdout[Len(stdout)] = StepAnnouncements[StepOf(error[1])]
        /\ \A out \in RemainingCalls : ~Attempted(out)

\* C9 witness: main ended on the exception while calls were still ahead.
C9_Witness == main_pc = "crashed" /\ RemainingCalls # {}

\* ------------------------------------------------------------------------
\* Properties of consolidation
\* ------------------------------------------------------------------------
\* The record of the last valid row of a file that carries the identifier.
RECURSIVE LastRecord(_, _, _)
LastRecord(lines, id, mapping) ==
    LET last == lines[Len(lines)]
    IN  IF Len(last) >= MaxColumn(mapping) + 1 /\ last[1] = id
        THEN SnpInfo(last, mapping)
        ELSE LastRecord(SubSeq(lines, 1, Len(lines) - 1), id, mapping)

HasRecord(catalog, id, phenotype, cohort, info) ==
    /\ id \in DOMAIN catalog
    /\ phenotype \in DOMAIN catalog[id]
    /\ cohort \in DOMAIN catalog[id][phenotype]
    /\ catalog[id][phenotype][cohort] = info

\* C1: once the run is over, every row with at least 19 fields of every
\* readable input file has its record in the catalog under its identifier,
\* the phenotype and the cohort of its file, the last row of the file
\* winning; two files of one phenotype and two cohorts that share a variant
\* leave both cohort entries under it.
C1_EveryValidRowInCatalog ==
    cons_pc = "done" =>
        \A name \in DOMAIN cons_input_dir :
            LET file == cons_input_dir[name]
            IN  ~FileRaises(file) =>
                    \A i \in 2..Len(file.lines) :
                        Len(file.lines[i]) >= 19 =>
                            HasRecord(consolidated_data, file.lines[i][1], name[1], name[2],
                                      LastRecord(file.lines, file.lines[i][1],
                                                 COLUMN_MAPPINGS[cons_software]))

\* C4: two runs over the same input files write the same catalog, whatever
\* order glob lists the files in.
C4_RerunSameCatalog ==
    Len(cons_output) >= 2 => cons_output[1] = cons_output[2]

\* ------------------------------------------------------------------------
\* Properties of re-matching and of the per-file error boundary
\* ------------------------------------------------------------------------
Logged(log, entry) == \E i \in DOMAIN log : log[i] = entry

\* The catalog the readable files alone build, merged in the given order.
RECURSIVE ConsOverReadable(_, _, _, _)
ConsOverReadable(files, dir, software, data) ==
    IF files = << >> THEN data
    ELSE IF FileRaises(dir[Head(files)])
    THEN ConsOverReadable(Tail(files), dir, software, data)
    ELSE ConsOverReadable(Tail(files), dir, software,
                          ConsMerge(data, cons_process_gz_file(Head(files), dir[Head(files)],
                                                               software)))

\* The match result and matched set the readable subset files alone build.
RECURSIVE MatchOverReadable(_, _, _, _, _)
MatchOverReadable(files, dir, original, software, acc) ==
    IF files = << >> THEN acc
    ELSE IF FileRaises(dir[Head(files)])
    THEN MatchOverReadable(Tail(files), dir, original, software, acc)
    ELSE LET r == match_process_gz_file(Head(files), dir[Head(files)], original, software)
         IN  MatchOverReadable(Tail(files), dir, original, software,
                 [data    |-> MatchMerge(acc.data, r.snp_data),
                  matched |-> acc.matched \cup r.matched_snps])

\* C2: in every state of a re-matching run, files that raise included, the
\* global matched set, the keys of the match result and the keys of the
\* written result are keys of the loaded catalog.
C2_MatchedSubsetOfCatalog ==
    /\ all_matched_snps \subseteq DOMAIN original_snp_data
    /\ DOMAIN new_consolidated_data \subseteq DOMAIN original_snp_data
    /\ \A i \in DOMAIN match_output :
           DOMAIN match_output[i] \subseteq DOMAIN original_snp_data

ValidRowIds(file) ==
    {file.lines[i][1] : i \in {k \in 2..Len(file.lines) : Len(file.lines[k]) >= 19}}

\* C2 witness: the run is over, one file raised, one file had a valid row
\* whose identifier the catalog lacks, and something was matched.
C2_Witness ==
    /\ match_pc = "done"
    /\ all_matched_snps # {}
    /\ \E n \in DOMAIN match_input_dir : FileRaises(match_input_dir[n])
    /\ \E n \in DOMAIN match_input_dir :
           /\ ~FileRaises(match_input_dir[n])
           /\ ValidRowIds(match_input_dir[n]) \ DOMAIN original_snp_data # {}

\* C6: a file that raises stops neither run. Once the run is over every
\* file has been announced, the output is written, and it is what the
\* readable files alone build (for re-matching the matched set too).
C6_FileErrorDoesNotStopRun ==
    /\ cons_pc = "done" =>
          /\ \A n \in DOMAIN cons_input_dir : Logged(cons_log, <<"Processing", n>>)
          /\ cons_output =
                <<ConsOverReadable(cons_gz_files, cons_input_dir, cons_software, EmptyDict)>>
    /\ match_pc = "done" =>
          /\ \A n \in DOMAIN match_input_dir : Logged(match_log, <<"Processing file", n>>)
          /\ LET r == MatchOverReadable(match_gz_files, match_input_dir, original_snp_data,
                                        match_software, [data |-> EmptyDict, matched |-> {}])
             IN  /\ match_output = <<r.data>>
                 /\ all_matched_snps = r.matched

\* C6 witness: consolidation is over, its first file raised, and the
\* catalog written holds the records of the file that came after it.
C6_Witness ==
    /\ cons_pc = "done"
    /\ Len(cons_gz_files) = 2
    /\ FileRaises(cons_input_dir[cons_gz_files[1]])
    /\ Logged(cons_log, <<"Error", cons_gz_files[1]>>)
    /\ cons_output # << >>
    /\ cons_output[1] # EmptyDict

\* C10: the step that merges a readable subset file of phenotype ph and
\* cohort co leaves every variant of the file with exactly the file's
\* mapping under ph (the single cohort co, whatever cohorts were there
\* before), leaves the other phenotypes of those variants as they were,
\* and leaves the variants the file does not match untouched.
C10_PhenotypeLevelReplace ==
    [][(match_pc = "loop" /\ match_i' = match_i + 1
            /\ ~FileRaises(match_input_dir[match_gz_files[match_i]])) =>
        LET name == match_gz_files[match_i]
            r    == match_process_gz_file(name, match_input_dir[name], original_snp_data,
                                          match_software)
        IN  /\ \A snp \in DOMAIN r.snp_data :
                  /\ snp \in DOMAIN new_consolidated_data'
                  /\ name[1] \in DOMAIN new_consolidated_data'[snp]
                  /\ new_consolidated_data'[snp][name[1]] = r.snp_data[snp][name[1]]
                  /\ DOMAIN new_consolidated_data'[snp][name[1]] = {name[2]}
                  /\ snp \in DOMAIN new_consolidated_data =>
                        \A ph \in (DOMAIN new_consolidated_data[snp]) \ {name[1]} :
                            /\ ph \in DOMAIN new_consolidated_data'[snp]
                            /\ new_consolidated_data'[snp][ph] =
                                   new_consolidated_data[snp][ph]
            /\ \A snp \in (DOMAIN new_consolidated_data) \ (DOMAIN r.snp_data) :
                  /\ snp \in DOMAIN new_consolidated_data'
                  /\ new_consolidated_data'[snp] = new_consolidated_data[snp]
      ]_vars

\* C10 witness: rs1 was matched in a bmi file, then in the UKBB file of
\* height, then in the FinnGen file of height; the result keeps the bmi
\* mapping and, under height, the FinnGen entry alone.
C10_Witness ==
    /\ match_pc = "done"
    /\ match_gz_files = << <<"bmi", "UKBB", "up_to_0.0001">>,
                           <<"height", "UKBB", "up_to_0.0001">>,
                           <<"height", "FinnGen", "up_to_0.0001">> >>
    /\ \A n \in DOMAIN match_input_dir :
           match_input_dir[n] = GzFile(<<Header19, Row19("rs1", "0.1")>>)
    /\ "rs1" \in DOMAIN new_consolidated_data
    /\ DOMAIN new_consolidated_data["rs1"] = {"bmi", "height"}
    /\ DOMAIN new_consolidated_data["rs1"]["height"] = {"FinnGen"}
    /\ DOMAIN new_consolidated_data["rs1"]["bmi"] = {"UKBB"}

====
